---- MODULE Spec2Model ----
(***************************************************************************)
(* The chronic-condition summary script (01_basic_summaries.py) as a state *)
(* machine.  The script is a straight-line batch job over the member table *)
(* df: enrichment, occurrence tally, cost aggregation, merge, derived      *)
(* columns, distribution summaries.  pc is the script's position; a step   *)
(* that raises ends the script in pc = "raised".                           *)
(*                                                                         *)
(* Representation.  A table is a sequence of rows, a row a function from   *)
(* column names to cell values.  Strings are TLA+ strings and ", ".join is *)
(* real concatenation.  Python's string order on the column names is the   *)
(* position in SortedNames.  pandas' missing value is NaN; every           *)
(* comparison with it is false, as in IEEE arithmetic.  A categorical cell *)
(* (age_bucket) holds the category code, the position of its label in      *)
(* AgeLabels, as pandas stores it.  Percentages are integers: hundredths   *)
(* of a percent where the code rounds to 2 decimals, tenths where it       *)
(* rounds to 1.                                                            *)
(***************************************************************************)
EXTENDS Integers, Sequences, FiniteSets, TLC

VARIABLES columns, df, chronic_cols, all_combinations, i, r,
          combination_df, agg_df, merged_df, final_df, summary_distribution, pc

vars == <<columns, df, chronic_cols, all_combinations, i, r,
          combination_df, agg_df, merged_df, final_df, summary_distribution, pc>>

\* Largest number of member records explored.
MaxMembers == 3

(***************************************************************************)
(* Generic helpers                                                         *)
(***************************************************************************)
NaN == -1

RECURSIVE SetToSeq(_)
SetToSeq(S) == IF S = {} THEN <<>>
               ELSE LET x == CHOOSE y \in S : TRUE IN <<x>> \o SetToSeq(S \ {x})

RECURSIVE SumSeq(_)
SumSeq(s) == IF s = <<>> THEN 0 ELSE Head(s) + SumSeq(Tail(s))

RECURSIVE Flatten(_)
Flatten(ss) == IF ss = <<>> THEN <<>> ELSE Head(ss) \o Flatten(Tail(ss))

Range(s) == {s[k] : k \in DOMAIN s}

\* The sequences that list every element of S exactly once.
Permutations_(S) == {p \in [1..Cardinality(S) -> S] : Range(p) = S}

(***************************************************************************)
(* The member table as loaded (lines 28-34)                                *)
(***************************************************************************)
\* The tracked chronic-condition columns of the modelled member table, in
\* Python's string order (the order sorted() gives).
SortedNames == <<"SP_ALZHDMTA", "SP_CHF", "SP_CNCR">>

\* A column of the member table that is no chronic-condition flag and whose
\* name happens to contain "SP" (hoSPice); its cells are coded 1 and 2 too.
ExtraCol == "HOSPICE_IND"

\* Every column name sorted() may meet, in Python's string order.
NameOrder == <<ExtraCol>> \o SortedNames

StrRank(name) == CHOOSE k \in DOMAIN NameOrder : NameOrder[k] = name

\* a < b on column names, as Python compares str.
StrLess(a, b) == StrRank(a) < StrRank(b)

PaymentCols == <<"MEDREIMB_IP", "BENRES_IP", "PPPYMT_IP",
                 "MEDREIMB_OP", "BENRES_OP", "PPPYMT_OP",
                 "MEDREIMB_CAR", "BENRES_CAR", "PPPYMT_CAR">>

LeadingCols == <<"DESYNPUF_ID", "BENE_BIRTH_DT", "BENE_SEX_IDENT_CD", "BENE_RACE_CD",
                 "BENE_ESRD_IND", "SP_STATE_CODE">>

\* The column layouts of the member file: the condition columns may come in
\* any order between the demographic and the payment columns.
ColumnOrders == {LeadingCols \o p \o PaymentCols : p \in Permutations_(Range(SortedNames))}

\* The real file's layout: condition columns in alphabetical order.
FileColumns == LeadingCols \o SortedNames \o PaymentCols

\* The layout of a member file that carries the extra column as well.
ExtraColumns == LeadingCols \o <<ExtraCol>> \o SortedNames \o PaymentCols

\* The keys of condition_mapping: the tracked chronic conditions (those of
\* them that the modelled member table carries).
TrackedConditions == Range(SortedNames)

\* "SP" in col
ContainsSP(col) == col \in {"SP_STATE_CODE", ExtraCol} \cup Range(SortedNames)

\* chronic_cols = [col for col in df.columns if "SP" in col and col != "SP_STATE_CODE"]
ChronicCols(cols) == SelectSeq(cols, LAMBDA col : ContainsSP(col) /\ col # "SP_STATE_CODE")

\* The flag assignments whose active set is one of the sets in Sets.  The
\* condition flags of the CMS file are coded 1 (yes) and 2 (no).
FlagsOf(Sets) == {[c \in Range(SortedNames) |-> IF c \in S THEN 1 ELSE 2] : S \in Sets}

\* A payment cell: any non-negative amount; fixed per member and column.
PaymentOf(id, col) ==
    LET k == CHOOSE j \in DOMAIN PaymentCols : PaymentCols[j] = col IN 10 * id + k

\* One record of the member file.
\* demo is the member's <<sex code, race code, ESRD indicator>>; the
\* indicator is text, "0" or "Y".
MemberRow(id, birth, demo, flags) ==
    [c \in Range(FileColumns) |->
        CASE c = "DESYNPUF_ID"       -> id
          [] c = "BENE_BIRTH_DT"     -> birth
          [] c = "BENE_SEX_IDENT_CD" -> demo[1]
          [] c = "BENE_RACE_CD"      -> demo[2]
          [] c = "BENE_ESRD_IND"     -> demo[3]
          [] c = "SP_STATE_CODE"     -> 1
          [] c \in Range(SortedNames) -> flags[c]
          [] OTHER                   -> PaymentOf(id, c)]

\* The member tables of at most MaxMembers records drawn from the inputs.
MemberTables(Births, Demos, Flags) ==
    UNION {{[k \in 1..n |-> MemberRow(k, in[k][1], in[k][2], in[k][3])] :
              in \in [1..n -> Births \X Demos \X Flags]} : n \in 0..MaxMembers}

(***************************************************************************)
(* Enrichment (lines 38-62)                                                *)
(***************************************************************************)
\* get_active_conditions with the flag taken for a truth value.
get_active_conditions_truthy(row) == SelectSeq(chronic_cols, LAMBDA col : row[col] # 0)

\* get_active_conditions
get_active_conditions(row) == SelectSeq(chronic_cols, LAMBDA col : row[col] = 1)

\* count_conditions
count_conditions(row) ==
    Cardinality({k \in DOMAIN chronic_cols : row[chronic_cols[k]] = 1})

\* ", ".join(x)
RECURSIVE Join(_)
Join(x) == IF Len(x) = 0 THEN ""
           ELSE IF Len(x) = 1 THEN x[1]
           ELSE x[1] \o ", " \o Join(Tail(x))

\* 2008 - (BENE_BIRTH_DT // 10000)
Age(birth) == 2008 - (birth \div 10000)

\* The finite left edges of the bins of pd.cut; the last bin is unbounded.
AgeBins == <<0, 64, 69, 74, 79, 84, 89>>

AgeLabels == <<"25 - 64", "65 - 69", "70 - 74", "75 - 79", "80 - 84", "85 - 89", "90+">>

\* pd.cut(age, bins, right=False): the code of the bin [bins[k], bins[k+1])
\* holding age, NaN when no bin holds it.
CutCode(age) ==
    LET hit == {k \in DOMAIN AgeBins :
                  /\ AgeBins[k] <= age
                  /\ (k < Len(AgeBins) => age < AgeBins[k + 1])}
    IN IF hit = {} THEN NaN ELSE CHOOSE k \in hit : TRUE

EnrichRow(row) ==
    LET active == get_active_conditions(row)
        age    == Age(row["BENE_BIRTH_DT"])
    IN row @@ [active_conditions     |-> active,
               active_conditions_str |-> Join(active),
               total_conditions      |-> count_conditions(row),
               age                   |-> age,
               age_bucket            |-> CutCode(age)]

Enrich ==
    /\ pc = "enrich"
    /\ df' = [k \in DOMAIN df |-> EnrichRow(df[k])]
    /\ pc' = "tally"
    /\ UNCHANGED <<columns, chronic_cols, all_combinations, i, r,
                   combination_df, agg_df, merged_df, final_df, summary_distribution>>

(***************************************************************************)
(* Occurrence tally (lines 66-70)                                          *)
(***************************************************************************)
\* sorted(conditions)
Sorted(conditions) == SortSeq(conditions, StrLess)

\* The elements of s at the positions I, in position order.
Pick(s, I) ==
    LET idx == SortSeq(SetToSeq(I), LAMBDA a, b : a < b)
    IN [k \in DOMAIN idx |-> s[idx[k]]]

\* Tuples of integers in lexicographic order.
RECURSIVE LexLess(_, _)
LexLess(a, b) ==
    IF Len(a) = 0 THEN Len(b) > 0
    ELSE IF Len(b) = 0 THEN FALSE
    ELSE IF a[1] # b[1] THEN a[1] < b[1]
    ELSE LexLess(Tail(a), Tail(b))

\* itertools.combinations(s, n): one tuple per n-element set of positions of
\* s, yielded in lexicographic order of the positions.
Combinations(s, n) ==
    LET positions == {Pick([k \in DOMAIN s |-> k], I) :
                        I \in {J \in SUBSET DOMAIN s : Cardinality(J) = n}}
        ordered   == SortSeq(SetToSeq(positions), LexLess)
    IN [k \in DOMAIN ordered |-> [j \in DOMAIN ordered[k] |-> s[ordered[k][j]]]]

\* A Counter is the sequence of its <<key, count>> entries in insertion order.
CounterKeys(counter) == {counter[k][1] : k \in DOMAIN counter}

\* counter[key], 0 for a key without an entry.
CounterGet(counter, key) ==
    IF key \in CounterKeys(counter)
    THEN (CHOOSE e \in Range(counter) : e[1] = key)[2]
    ELSE 0

\* counter[key] += 1
CounterAdd(counter, key) ==
    IF key \in CounterKeys(counter)
    THEN [k \in DOMAIN counter |->
            IF counter[k][1] = key THEN <<key, counter[k][2] + 1>> ELSE counter[k]]
    ELSE Append(counter, <<key, 1>>)

\* Counter.update(iterable): one increment per element yielded, in order.
RECURSIVE CounterUpdate(_, _)
CounterUpdate(counter, iterable) ==
    IF iterable = <<>> THEN counter
    ELSE CounterUpdate(CounterAdd(counter, Head(iterable)), Tail(iterable))

\* The first size of the inner loop, range(1, len(conditions) + 1).
RangeStartSkipsSingles == 1 + 1

RangeStart == 1

\* One pass of the inner loop:
\*   all_combinations.update(itertools.combinations(sorted(conditions), r))
TallyUpdate ==
    /\ pc = "tally"
    /\ i <= Len(df)
    /\ r \in RangeStart..Len(df[i].active_conditions)
    /\ all_combinations' =
          CounterUpdate(all_combinations, Combinations(Sorted(df[i].active_conditions), r))
    /\ r' = r + 1
    /\ UNCHANGED <<columns, df, chronic_cols, i,
                   combination_df, agg_df, merged_df, final_df, summary_distribution, pc>>

\* The inner range is exhausted: the outer loop takes the next member.
TallyNextMember ==
    /\ pc = "tally"
    /\ i <= Len(df)
    /\ r \notin RangeStart..Len(df[i].active_conditions)
    /\ i' = i + 1
    /\ r' = RangeStart
    /\ UNCHANGED <<columns, df, chronic_cols, all_combinations,
                   combination_df, agg_df, merged_df, final_df, summary_distribution, pc>>

(***************************************************************************)
(* The occurrence table (lines 73-83)                                      *)
(***************************************************************************)
CombinationRow(combo, count) ==
    [number_of_conditions |-> Len(combo),
     combination          |-> combo,
     total_occurrence     |-> count,
     combination_str      |-> Join(combo)]

\* pd.DataFrame([...]): one row per counter entry; with no entry the frame
\* has no rows and no columns.
BuildCombinationDf ==
    /\ pc = "tally"
    /\ i > Len(df)
    /\ combination_df' = [k \in DOMAIN all_combinations |->
                            CombinationRow(all_combinations[k][1], all_combinations[k][2])]
    /\ pc' = "aggregate"
    /\ UNCHANGED <<columns, df, chronic_cols, all_combinations, i, r,
                   agg_df, merged_df, final_df, summary_distribution>>

(***************************************************************************)
(* Cost aggregation (lines 88-105)                                         *)
(***************************************************************************)
\* Python's order on the key strings.  No column name is a prefix of
\* another, so the joined strings compare as their tuples of names do,
\* name by name, a proper prefix first.
RECURSIVE NamesLess(_, _)
NamesLess(a, b) ==
    IF Len(a) = 0 THEN Len(b) > 0
    ELSE IF Len(b) = 0 THEN FALSE
    ELSE IF a[1] # b[1] THEN StrLess(a[1], b[1])
    ELSE NamesLess(Tail(a), Tail(b))

\* The rows of d whose key string is key, in table order.
GroupRows(d, key) == SelectSeq(d, LAMBDA row : row.active_conditions_str = key)

\* The group keys of df.groupby("active_conditions_str"), sorted.
GroupKeys(d) ==
    LET keys     == {d[k].active_conditions_str : k \in DOMAIN d}
        names(k) == GroupRows(d, k)[1].active_conditions
    IN SortSeq(SetToSeq(keys), LAMBDA a, b : NamesLess(names(a), names(b)))

\* ("col", "count"): the non-null cells of the column.  Every record of the
\* member file carries its identifier, so the count is the group's size.
AggCount(rows, col) == Cardinality({k \in DOMAIN rows : rows[k][col] # NaN})

\* ("col", "sum")
AggSum(rows, col) == SumSeq([k \in DOMAIN rows |-> rows[k][col]])

\* .replace("", "NO CHRONIC CONDITIONS"), in place on the column of agg_df
\* (pandas before copy-on-write, where the column is a view of the frame).
ReplaceEmpty(label) == IF label = "" THEN "NO CHRONIC CONDITIONS" ELSE label

AggRow(d, key) ==
    LET rows == GroupRows(d, key)
    IN [active_conditions_str |-> ReplaceEmpty(key),
        member_count        |-> AggCount(rows, "DESYNPUF_ID"),
        ip_medicare         |-> AggSum(rows, "MEDREIMB_IP"),
        ip_beneficiary      |-> AggSum(rows, "BENRES_IP"),
        ip_pp               |-> AggSum(rows, "PPPYMT_IP"),
        op_medicare         |-> AggSum(rows, "MEDREIMB_OP"),
        op_beneficiary      |-> AggSum(rows, "BENRES_OP"),
        op_pp               |-> AggSum(rows, "PPPYMT_OP"),
        carrier_medicare    |-> AggSum(rows, "MEDREIMB_CAR"),
        carrier_beneficiary |-> AggSum(rows, "BENRES_CAR"),
        carrier_pp          |-> AggSum(rows, "PPPYMT_CAR")]

\* The group keys without the empty key.
AggKeysDropEmpty(d) == SelectSeq(GroupKeys(d), LAMBDA key : key # "")

\* The group keys the aggregation makes rows for.
AggKeys(d) == GroupKeys(d)

Aggregate ==
    /\ pc = "aggregate"
    /\ agg_df' = LET keys == AggKeys(df) IN [k \in DOMAIN keys |-> AggRow(df, keys[k])]
    /\ pc' = "merge"
    /\ UNCHANGED <<columns, df, chronic_cols, all_combinations, i, r,
                   combination_df, merged_df, final_df, summary_distribution>>

(***************************************************************************)
(* Merge (lines 110-115)                                                   *)
(***************************************************************************)
\* The right-hand cells of a left row without a match.
NoMatch == [number_of_conditions |-> NaN,
            combination          |-> NaN,
            total_occurrence     |-> NaN,
            combination_str      |-> NaN]

\* The rows a left join makes of one left row: one per matching right row,
\* in the right table's order, or one with missing right-hand cells.
JoinRow(left, right) ==
    LET matches == SelectSeq(right, LAMBDA row : row.combination_str = left.active_conditions_str)
    IN IF matches = <<>> THEN <<left @@ NoMatch>>
       ELSE [k \in DOMAIN matches |-> left @@ matches[k]]

\* agg_df.merge(combination_df, how="left", left_on=..., right_on=...)
LeftJoin(left, right) == Flatten([k \in DOMAIN left |-> JoinRow(left[k], right)])

\* A frame built from no rows has no column "combination_str": merge raises
\* KeyError.
MergeRaises(right) == right = <<>>

Merge ==
    /\ pc = "merge"
    /\ IF MergeRaises(combination_df)
       THEN /\ pc' = "raised"
            /\ UNCHANGED merged_df
       ELSE /\ merged_df' = LeftJoin(agg_df, combination_df)
            /\ pc' = "derive"
    /\ UNCHANGED <<columns, df, chronic_cols, all_combinations, i, r,
                   combination_df, agg_df, final_df, summary_distribution>>

(***************************************************************************)
(* Derived columns and the final report (lines 117-154)                    *)
(***************************************************************************)
\* x < n for a float cell: false for NaN.
Less(x, n) == x # NaN /\ x < n

\* lambda x: "<3" if x < 3 else "Multiple"
ChronicConditionCount(x) == IF Less(x, 3) THEN "<3" ELSE "Multiple"

DeriveRow(row) ==
    LET ip  == row.ip_medicare + row.ip_beneficiary + row.ip_pp
        op  == row.op_medicare + row.op_beneficiary + row.op_pp
        car == row.carrier_medicare + row.carrier_beneficiary + row.carrier_pp
    IN row @@ [chronic_condition_count |-> ChronicConditionCount(row.number_of_conditions),
               total_ip_cost          |-> ip,
               total_op_cost          |-> op,
               total_carrier_cost     |-> car,
               total_medicare_cost    |-> row.ip_medicare + row.op_medicare + row.carrier_medicare,
               total_beneficiary_cost |-> row.ip_beneficiary + row.op_beneficiary
                                          + row.carrier_beneficiary,
               total_pp_cost          |-> row.ip_pp + row.op_pp + row.carrier_pp,
               total_cost             |-> ip + op + car]

\* merged_df.drop(columns=["combination", "combination_str"], errors="ignore")
DropColumns(row, dropped) == [c \in DOMAIN row \ dropped |-> row[c]]

Derive ==
    /\ pc = "derive"
    /\ merged_df' = [k \in DOMAIN merged_df |-> DeriveRow(merged_df[k])]
    /\ final_df' = [k \in DOMAIN merged_df |->
                      DropColumns(DeriveRow(merged_df[k]), {"combination", "combination_str"})]
    /\ pc' = "summarize"
    /\ UNCHANGED <<columns, df, chronic_cols, all_combinations, i, r,
                   combination_df, agg_df, summary_distribution>>

(***************************************************************************)
(* Distribution analysis (lines 162-235)                                   *)
(***************************************************************************)
(* Float arithmetic.  The percentages are IEEE doubles: count / total and  *)
(* every product are rounded to 53 significant bits, ties to even, and     *)
(* round(decimals) is rint(x * 10^decimals) / 10^decimals.  A double is a  *)
(* record [m, e] of value m * 2^e with m below 2^53; m is a natural number *)
(* held as the sequence of its base-BigBase digits, lowest first, without  *)
(* leading zeros.                                                          *)
BigBase == 10000

RECURSIVE BigNorm(_)
BigNorm(a) == IF a # <<>> /\ a[Len(a)] = 0 THEN BigNorm(SubSeq(a, 1, Len(a) - 1)) ELSE a

RECURSIVE BigOfInt(_)
BigOfInt(n) == IF n = 0 THEN <<>> ELSE <<n % BigBase>> \o BigOfInt(n \div BigBase)

RECURSIVE BigToInt(_)
BigToInt(a) == IF a = <<>> THEN 0 ELSE a[1] + BigBase * BigToInt(Tail(a))

\* a * m + carry, for a small positive m.
RECURSIVE BigMulAdd(_, _, _)
BigMulAdd(a, m, carry) ==
    IF a = <<>> THEN BigOfInt(carry)
    ELSE LET v == a[1] * m + carry
         IN <<v % BigBase>> \o BigMulAdd(Tail(a), m, v \div BigBase)

BigMulSmall(a, m) == BigMulAdd(a, m, 0)

BigAddOne(a) == BigMulAdd(a, 1, 1)

\* <<quotient digits (not normalised), remainder>> of a by a small positive m.
RECURSIVE BigDivDigits(_, _)
BigDivDigits(a, m) ==
    IF a = <<>> THEN <<<<>>, 0>>
    ELSE LET hi == BigDivDigits(Tail(a), m)
             v  == hi[2] * BigBase + a[1]
         IN <<<<v \div m>> \o hi[1], v % m>>

\* <<a div m, a mod m>>
BigDivSmall(a, m) == LET d == BigDivDigits(a, m) IN <<BigNorm(d[1]), d[2]>>

BigOdd(a) == a # <<>> /\ a[1] % 2 = 1

\* The number of bits of a.
RECURSIVE BitLen(_)
BitLen(a) == IF a = <<>> THEN 0 ELSE 1 + BitLen(BigDivSmall(a, 2)[1])

\* a * 2^k
RECURSIVE BigShiftLeft(_, _)
BigShiftLeft(a, k) ==
    IF k = 0 THEN a
    ELSE LET j == IF k < 10 THEN k ELSE 10 IN BigShiftLeft(BigMulSmall(a, 2^j), k - j)

\* <<a div 2^k, whether a bit was shifted out or lost before>>
RECURSIVE BigShiftRight(_, _, _)
BigShiftRight(a, k, sticky) ==
    IF k = 0 THEN <<a, sticky>>
    ELSE LET j == IF k < 10 THEN k ELSE 10
             d == BigDivSmall(a, 2^j)
         IN BigShiftRight(d[1], k - j, sticky \/ d[2] # 0)

\* (a + a lost fraction, if sticky) / 2^k to the nearest integer, a tie to
\* the even neighbour.
RoundShift(a, sticky, k) ==
    IF k = 0 THEN a
    ELSE LET sh   == BigShiftRight(a, k - 1, sticky)
             d    == BigDivSmall(sh[1], 2)
             up   == d[2] = 1 /\ (sh[2] \/ BigOdd(d[1]))
         IN IF up THEN BigAddOne(d[1]) ELSE d[1]

\* The double nearest to (n + a lost fraction, if sticky) * 2^e.
ToDouble(n, sticky, e) ==
    LET k == IF BitLen(n) > 53 THEN BitLen(n) - 53 ELSE 0
        m == RoundShift(n, sticky, k)
    IN IF BitLen(m) > 53 THEN [m |-> BigDivSmall(m, 2)[1], e |-> e + k + 1]
       ELSE [m |-> m, e |-> e + k]

\* count / total, for 0 < count and 0 < total.
FloatDiv(count, total) ==
    LET d == BigDivSmall(BigShiftLeft(BigOfInt(count), 80), total)
    IN ToDouble(d[1], d[2] # 0, -80)

\* x * k, for a small positive integer k.
FloatMul(x, k) == ToDouble(BigMulSmall(x.m, k), FALSE, x.e)

\* rint(x), for x >= 0.
Rint(x) == IF x.e >= 0 THEN BigToInt(BigShiftLeft(x.m, x.e))
           ELSE BigToInt(RoundShift(x.m, FALSE, -x.e))

\* (count / total * 100).round(decimals) in units of 10^-decimals, with
\* scale = 10^decimals, as the doubles give it.
FloatPercent(count, total, scale) ==
    IF count = 0 THEN 0
    ELSE Rint(FloatMul(FloatMul(FloatDiv(count, total), 100), scale))

\* (count / total * 100).round(decimals) in units of 10^-decimals.  The
\* doubles carry a relative error below 2^-50: the result is the integer
\* nearest to the exact quotient unless the quotient is a tie, and only then
\* do the doubles decide.
RoundedPercent(count, total, scale) ==
    LET num == count * 100 * scale
        q   == num \div total
        rem == num % total
    IN IF 2 * rem < total THEN q
       ELSE IF 2 * rem > total THEN q + 1
       ELSE FloatPercent(count, total, scale)

\* The grouping columns held as a categorical (the result of pd.cut).
Categorical == {"age_bucket"}

\* The grouping columns whose cells are text, and the texts met in them in
\* Python's string order.
TextCols == {"BENE_ESRD_IND"}

TextOrder == <<"0", "Y">>

TextRank(text) == CHOOSE k \in DOMAIN TextOrder : TextOrder[k] = text

\* Whether the cell of column col is missing; the text cells of the member
\* tables are all filled.
IsMissing(col, cell) == col \notin TextCols /\ cell = NaN

\* a < b on the cells of column col, the order of sort_index().
CellLess(col, a, b) == IF col \in TextCols THEN TextRank(a) < TextRank(b) ELSE a < b

\* Series.value_counts(): the number of cells equal to each value; missing
\* cells are not counted.
ValueCount(rows, col, value) ==
    Cardinality({k \in DOMAIN rows : ~IsMissing(col, rows[k][col]) /\ rows[k][col] = value})

\* The number of cells value_counts counts, the denominator of normalize=True.
CountedCells(rows, col) ==
    Cardinality({k \in DOMAIN rows : ~IsMissing(col, rows[k][col])})

\* The index of value_counts().sort_index(): the values seen, ascending; of a
\* categorical every category, in category order.
Cohorts(rows, col) ==
    IF col \in Categorical THEN [k \in DOMAIN AgeLabels |-> k]
    ELSE SortSeq(SetToSeq({rows[k][col] : k \in {j \in DOMAIN rows :
                                                    ~IsMissing(col, rows[j][col])}}),
                 LAMBDA a, b : CellLess(col, a, b))

\* The base percentage taken over the members that value_counts counted.
BasePercentOfCounted(rows, col, value) ==
    IF CountedCells(rows, col) = 0 THEN NaN
    ELSE RoundedPercent(ValueCount(rows, col, value), CountedCells(rows, col), 100)

\* (base_counts / total_members * 100).round(2), in hundredths of a percent.
BasePercent(rows, col, value) ==
    IF Len(rows) = 0 THEN NaN
    ELSE RoundedPercent(ValueCount(rows, col, value), Len(rows), 100)

\* df_clean[df_clean[condition] == 1], after the flags are made 0/1 by == 1.
ConditionRows(rows, condition) == SelectSeq(rows, LAMBDA row : row[condition] = 1)

\* (value_counts(normalize=True) * 100).reindex(Cohort).fillna(0).round(1),
\* in tenths of a percent.
GroupShare(rows, col, condition, value) ==
    LET sub == ConditionRows(rows, condition)
    IN IF CountedCells(sub, col) = 0 THEN 0
       ELSE RoundedPercent(ValueCount(sub, col, value), CountedCells(sub, col), 10)

\* The name of a condition's share column.
ShareColumn(condition) == "% of " \o condition \o " Population"

\* The label a cohort is written with.
CohortLabel(col, value) == IF col \in Categorical THEN AgeLabels[value] ELSE value

\* summarize_chronic_conditions_by_group(df, group_col, chronic_cols)
summarize_chronic_conditions_by_group(rows, group_col, conditions) ==
    LET cohorts == Cohorts(rows, group_col)
    IN [k \in DOMAIN cohorts |->
          [c \in {"Group Column", "Cohort", "% of Total Population"}
                   \cup {ShareColumn(conditions[j]) : j \in DOMAIN conditions} |->
             CASE c = "Group Column" -> group_col
               [] c = "Cohort" -> CohortLabel(group_col, cohorts[k])
               [] c = "% of Total Population" -> BasePercent(rows, group_col, cohorts[k])
               [] OTHER ->
                    LET cond == CHOOSE x \in Range(conditions) : ShareColumn(x) = c
                    IN GroupShare(rows, group_col, cond, cohorts[k])]]

\* The grouping columns, in the order their summaries are stacked.
GroupCols == <<"age_bucket", "BENE_RACE_CD", "BENE_ESRD_IND", "SP_STATE_CODE",
               "BENE_SEX_IDENT_CD", "total_conditions">>

\* pd.concat of the summaries of every grouping column.
Summarize ==
    /\ pc = "summarize"
    /\ summary_distribution' =
          Flatten([g \in DOMAIN GroupCols |->
                     summarize_chronic_conditions_by_group(df, GroupCols[g], chronic_cols)])
    /\ pc' = "done"
    /\ UNCHANGED <<columns, df, chronic_cols, all_combinations, i, r,
                   combination_df, agg_df, merged_df, final_df>>

(***************************************************************************)
(* Specification                                                           *)
(***************************************************************************)
AllSets == SUBSET Range(SortedNames)

InitWith(Layouts, Births, Demos, Flags) ==
    /\ columns \in Layouts
    /\ df \in MemberTables(Births, Demos, Flags)
    /\ chronic_cols = ChronicCols(columns)
    /\ all_combinations = <<>>
    /\ i = 1
    /\ r = RangeStart
    /\ combination_df = <<>>
    /\ agg_df = <<>>
    /\ merged_df = <<>>
    /\ final_df = <<>>
    /\ summary_distribution = <<>>
    /\ pc = "enrich"

\* One combination of sex, race and ESRD indicator.
OneDemo == {<<1, 1, "0">>}

Init == InitWith(ColumnOrders, {19400101}, OneDemo, FlagsOf(AllSets))

Next ==
    \/ Enrich
    \/ TallyUpdate
    \/ TallyNextMember
    \/ BuildCombinationDf
    \/ Aggregate
    \/ Merge
    \/ Derive
    \/ Summarize

Spec == Init /\ [][Next]_vars

\* Birth dates (YYYYMMDD) of members aged 25, 64, 65, 69, 74, 79, 84, 89 and 90.
BirthDates == {19830101, 19440101, 19430101, 19390101, 19340101,
               19290101, 19240101, 19190101, 19180101}

\* The same script over member tables that vary in the birth date.
InitAge == InitWith({FileColumns}, BirthDates, OneDemo, FlagsOf({{}, {"SP_CHF"}}))

SpecAge == InitAge /\ [][Next]_vars

\* Members that differ in sex, race and ESRD indicator; one has no sex code.
CohortDemos == {<<1, 1, "0">>, <<2, 1, "Y">>, <<1, 2, "Y">>, <<NaN, 2, "0">>}

\* The same script over member tables that vary in the cohort columns, one
\* of whose cells may be missing; no member has the condition SP_CNCR.
InitCohort ==
    InitWith({FileColumns}, {19400101}, CohortDemos,
             FlagsOf({{}, {"SP_CHF"}, {"SP_ALZHDMTA", "SP_CHF"}}))

SpecCohort == InitCohort /\ [][Next]_vars

\* The member tables of a file with the extra column: every record carries a
\* cell for it, coded like a condition flag.
ExtraTables ==
    UNION {{[k \in DOMAIN t |-> t[k] @@ (ExtraCol :> x[k])] : x \in [DOMAIN t -> {1, 2}]} :
             t \in MemberTables({19400101}, OneDemo,
                                FlagsOf({{}, {"SP_CHF"}, {"SP_ALZHDMTA", "SP_CHF"}}))}

\* The same script over a member file with the extra column.
InitExtra ==
    /\ columns = ExtraColumns
    /\ df \in ExtraTables
    /\ chronic_cols = ChronicCols(columns)
    /\ all_combinations = <<>>
    /\ i = 1
    /\ r = RangeStart
    /\ combination_df = <<>>
    /\ agg_df = <<>>
    /\ merged_df = <<>>
    /\ final_df = <<>>
    /\ summary_distribution = <<>>
    /\ pc = "enrich"

SpecExtra == InitExtra /\ [][Next]_vars

(***************************************************************************)
(* What the properties speak of, read off the member table itself          *)
(***************************************************************************)
Conditions == Range(SortedNames)

NonEmptySets == (SUBSET Conditions) \ {{}}

\* The members whose active-condition set contains S.
Holders(S) == {k \in DOMAIN df : \A c \in S : df[k][c] = 1}

\* The exact active-condition set of member k.
ExactSet(k) == {c \in Conditions : df[k][c] = 1}

\* The sorted tuple of S.
SortedTuple(S) ==
    CHOOSE t \in Permutations_(S) :
        \A a, b \in DOMAIN t : a < b => StrRank(t[a]) < StrRank(t[b])

\* The tuple key without its j-th condition.
Without(key, j) == [k \in 1..(Len(key) - 1) |-> IF k < j THEN key[k] ELSE key[k + 1]]

\* The entries of the counter under key.
Entries(key) == {k \in DOMAIN all_combinations : all_combinations[k][1] = key}

TallyFinished == pc # "enrich" /\ (pc = "tally" => i > Len(df))

Aggregated == pc \in {"merge", "derive", "summarize", "done", "raised"}

(***************************************************************************)
(* Properties                                                              *)
(***************************************************************************)
\* C1: once the tally has processed every member, a non-empty condition set
\* that some member's active set contains has exactly one counter entry,
\* under its sorted tuple, and the entry is the number of members whose
\* active set contains it; a set no member's active set contains has no entry.
OccurrenceIsSupersetCount ==
    TallyFinished =>
        \A S \in NonEmptySets :
            IF Holders(S) # {}
            THEN /\ Cardinality(Entries(SortedTuple(S))) = 1
                 /\ CounterGet(all_combinations, SortedTuple(S)) = Cardinality(Holders(S))
            ELSE Entries(SortedTuple(S)) = {}

\* The tally is over, a single condition is counted for two members with
\* different exact sets, and another set has no entry.
OccurrenceWitness ==
    /\ pc = "aggregate"
    /\ \E c \in Conditions :
          /\ CounterGet(all_combinations, <<c>>) = 2
          /\ \E k, m \in Holders({c}) : ExactSet(k) # ExactSet(m)
    /\ \E S \in NonEmptySets : Holders(S) = {} /\ Entries(SortedTuple(S)) = {}

\* C2: the member_count column of the cost aggregation sums to the number of
\* member records, and every member's exact key labels exactly one row.
MemberCountSumsToPopulation ==
    Aggregated =>
        /\ SumSeq([k \in DOMAIN agg_df |-> agg_df[k].member_count]) = Len(df)
        /\ \A m \in DOMAIN df :
              Cardinality({k \in DOMAIN agg_df :
                             agg_df[k].active_conditions_str =
                                 IF ExactSet(m) = {} THEN "NO CHRONIC CONDITIONS"
                                 ELSE df[m].active_conditions_str}) = 1

\* Three members in two groups, two of them in the group without conditions.
MemberCountWitness ==
    /\ pc = "merge"
    /\ Len(df) = 3
    /\ Len(agg_df) = 2
    /\ \E k \in DOMAIN agg_df :
          /\ agg_df[k].active_conditions_str = "NO CHRONIC CONDITIONS"
          /\ agg_df[k].member_count = 2

\* C9: in every state of the tally and after it, a counted combination of
\* two or more conditions has each of its immediate subsets counted too, with
\* an occurrence count at least its own.
SubsetCountsDominate ==
    \A key \in CounterKeys(all_combinations) :
        Len(key) >= 2 =>
            \A j \in DOMAIN key :
                /\ Without(key, j) \in CounterKeys(all_combinations)
                /\ CounterGet(all_combinations, Without(key, j))
                      >= CounterGet(all_combinations, key)

\* In the middle of the tally, between two updates for one member, a triple
\* is counted and one of its pairs is counted more often.
SubsetCountsWitness ==
    /\ pc = "tally"
    /\ i <= Len(df)
    /\ i > 1
    /\ r > RangeStart
    /\ \E key \in CounterKeys(all_combinations) :
          /\ Len(key) = 3
          /\ \E j \in DOMAIN key :
                CounterGet(all_combinations, Without(key, j))
                    > CounterGet(all_combinations, key)

\* The label of member m's group in the cost table and the report.
GroupLabel(m) ==
    IF ExactSet(m) = {} THEN "NO CHRONIC CONDITIONS" ELSE df[m].active_conditions_str

\* The rows of the final report labelled with member m's exact set.
ReportRows(m) ==
    {k \in DOMAIN final_df : final_df[k].active_conditions_str = GroupLabel(m)}

ScriptEnded == pc \in {"done", "raised"}

ReportWritten == pc \in {"summarize", "done"}

\* C3: when the script has ended, the final report has exactly one row for
\* the exact active-condition set of every member (the empty set under the
\* label "NO CHRONIC CONDITIONS") and no row for any other set.
ReportHasOneRowPerExactSet ==
    ScriptEnded =>
        /\ \A m \in DOMAIN df : Cardinality(ReportRows(m)) = 1
        /\ \A k \in DOMAIN final_df : \E m \in DOMAIN df : k \in ReportRows(m)

\* C4: every row of the final report for a non-empty exact set carries that
\* set's own occurrence entry: its size and the number of members whose
\* active set contains it, whatever the order of the condition columns.
JoinFindsOwnOccurrence ==
    ReportWritten =>
        \A m \in DOMAIN df :
            ExactSet(m) # {} =>
                \A k \in ReportRows(m) :
                    /\ final_df[k].number_of_conditions = Cardinality(ExactSet(m))
                    /\ final_df[k].total_occurrence = Cardinality(Holders(ExactSet(m)))

\* C5: with no member record the script does not raise.
EmptyPopulationDoesNotRaise == Len(df) = 0 => pc # "raised"

\* No cost row's label is the key string of a counter entry.
NoOccurrenceMatch ==
    \A k \in DOMAIN agg_df :
        \A key \in CounterKeys(all_combinations) :
            Join(key) # agg_df[k].active_conditions_str

\* C6: when the merge finds no occurrence match for any cost row it does not
\* raise, and every cost row is in the merged table with missing
\* number_of_conditions and total_occurrence.
NoMatchStillReported ==
    (pc \in {"derive", "summarize", "done", "raised"} /\ agg_df # <<>> /\ NoOccurrenceMatch) =>
        /\ pc # "raised"
        /\ Len(merged_df) = Len(agg_df)
        /\ \A k \in DOMAIN merged_df :
              /\ merged_df[k].active_conditions_str = agg_df[k].active_conditions_str
              /\ merged_df[k].number_of_conditions = NaN
              /\ merged_df[k].total_occurrence = NaN

\* C7: every row of the final report is "<3" when its exact set has fewer
\* than 3 conditions, the set without conditions included, and "Multiple"
\* when it has 3 or more.
CountCategoryFollowsSetSize ==
    ReportWritten =>
        \A m \in DOMAIN df :
            \A k \in ReportRows(m) :
                final_df[k].chronic_condition_count =
                    IF Cardinality(ExactSet(m)) < 3 THEN "<3" ELSE "Multiple"

\* The rows of the distribution table for grouping column g.
SummaryRows(g) ==
    SelectSeq(summary_distribution, LAMBDA row : row["Group Column"] = g)

Distance(a, b) == IF a >= b THEN a - b ELSE b - a

\* The members with a cohort value in grouping column g.
WithCohort(g) == {m \in DOMAIN df : ~IsMissing(g, df[m][g])}

\* The sum of a column of the distribution table over the rows of g.
ColumnSum(g, column) ==
    LET rows == SummaryRows(g) IN SumSeq([k \in DOMAIN rows |-> rows[k][column]])

\* C8: as stated: for every grouping column the "% of Total Population"
\* column sums to 100 and so does every condition's share column, each within
\* the rounding of its rows (half a unit of the last decimal per row).
PercentagesSumToHundred ==
    pc = "done" =>
        \A g \in Range(GroupCols) :
            LET rows == SummaryRows(g) IN
            /\ 2 * Distance(SumSeq([k \in DOMAIN rows |-> rows[k]["% of Total Population"]]),
                            10000) <= Len(rows)
            /\ \A c \in Range(chronic_cols) :
                  2 * Distance(SumSeq([k \in DOMAIN rows |-> rows[k][ShareColumn(c)]]),
                               1000) <= Len(rows)

\* C8, amended: for every grouping column the "% of Total Population" column
\* sums, within the rounding of its rows, to the percentage of members that
\* have a cohort value (100 when none is missing); a condition's share column
\* sums to 100 within rounding when some member with the condition has a
\* cohort value, and to 0 otherwise.
PercentagesSumOverCountedMembers ==
    pc = "done" =>
        \A g \in Range(GroupCols) :
            LET n == Len(SummaryRows(g)) IN
            /\ 2 * Distance(ColumnSum(g, "% of Total Population") * Len(df),
                            10000 * Cardinality(WithCohort(g))) <= n * Len(df)
            /\ \A c \in Range(chronic_cols) :
                  IF Holders({c}) \cap WithCohort(g) # {}
                  THEN 2 * Distance(ColumnSum(g, ShareColumn(c)), 1000) <= n
                  ELSE ColumnSum(g, ShareColumn(c)) = 0

\* The summaries are made of three members, one without a sex code: the sex
\* rows sum to two thirds of the population after rounding, the share column
\* of a condition some member has sums to 100, that of SP_CNCR to 0; the two
\* race rows sum to 100 and a third of the members has the ESRD indicator.
PercentagesWitness ==
    /\ pc = "done"
    /\ Len(df) = 3
    /\ Cardinality(WithCohort("BENE_SEX_IDENT_CD")) = 2
    /\ Len(SummaryRows("BENE_SEX_IDENT_CD")) = 2
    /\ ColumnSum("BENE_SEX_IDENT_CD", "% of Total Population") = 6666
    /\ ColumnSum("BENE_SEX_IDENT_CD", ShareColumn("SP_CHF")) = 1000
    /\ Holders({"SP_CNCR"}) = {}
    /\ ColumnSum("BENE_SEX_IDENT_CD", ShareColumn("SP_CNCR")) = 0
    /\ Len(SummaryRows("BENE_RACE_CD")) = 2
    /\ ColumnSum("BENE_RACE_CD", "% of Total Population") = 10000
    /\ \E k \in DOMAIN SummaryRows("BENE_ESRD_IND") :
          /\ SummaryRows("BENE_ESRD_IND")[k].Cohort = "Y"
          /\ SummaryRows("BENE_ESRD_IND")[k]["% of Total Population"] = 3333

\* The bucket whose label names the age.
NamedBucket(age) ==
    IF age < 65 THEN "25 - 64"
    ELSE IF age <= 69 THEN "65 - 69"
    ELSE IF age <= 74 THEN "70 - 74"
    ELSE IF age <= 79 THEN "75 - 79"
    ELSE IF age <= 84 THEN "80 - 84"
    ELSE IF age <= 89 THEN "85 - 89"
    ELSE "90+"

\* C10: every member is assigned the bucket whose label names its age,
\* 2008 minus the year of birth; an age below 65 is in "25 - 64".
AgeBucketNamesAge ==
    pc # "enrich" =>
        \A m \in DOMAIN df :
            /\ df[m].age_bucket # NaN
            /\ AgeLabels[df[m].age_bucket] = NamedBucket(2008 - (df[m]["BENE_BIRTH_DT"] \div 10000))

\* The columns a row of the distribution table may have when only tracked
\* conditions get a share column.
TrackedSummaryColumns ==
    {"Group Column", "Cohort", "% of Total Population"}
        \cup {ShareColumn(c) : c \in TrackedConditions}

\* C11: only tracked conditions are condition flags: no other column of the
\* member table is among a member's active_conditions, in a combination key
\* (of the counter or of the cost table), counted in total_conditions, or
\* given a share column of the distribution table.
OnlyTrackedConditionsCount ==
    /\ pc # "enrich" =>
          \A m \in DOMAIN df :
              /\ Range(df[m].active_conditions) \subseteq TrackedConditions
              /\ df[m].active_conditions_str
                    = Join(SelectSeq(columns, LAMBDA c : c \in TrackedConditions /\ df[m][c] = 1))
              /\ df[m].total_conditions
                    = Cardinality({c \in TrackedConditions : df[m][c] = 1})
    /\ \A key \in CounterKeys(all_combinations) : Range(key) \subseteq TrackedConditions
    /\ \A k \in DOMAIN summary_distribution :
          DOMAIN summary_distribution[k] \subseteq TrackedSummaryColumns
====
